---- MODULE Spec2Model ----
(***************************************************************************)
(* REACT-CPP: the Timer, WriteWatcher (Writer), Reader and Synchronizer     *)
(* watchers of include/timer.h, include/watchers/write.h, src/reader.cpp   *)
(* and include/synchronizer.h, driven by one Loop on top of the external   *)
(* multiplexer (libev).                                                    *)
(*                                                                         *)
(* Time is the loop's cached clock (Loop::now()), an integer.  Every       *)
(* watcher is a record holding the C++ object's fields together with the   *)
(* fields of its embedded ev_* struct (_watcher): reg is ev_is_active,     *)
(* pend is ev_is_pending, at is ev_timer.at (relative while stopped,       *)
(* absolute while started).  While a method runs, the record also carries  *)
(* calls (the requests the method has made to the multiplexer) and ret     *)
(* (its return value); last keeps them for the most recent method call.    *)
(***************************************************************************)
EXTENDS Integers, Sequences, FiniteSets

VARIABLES now, pc, returned, fdReady, fdReadable, timer, writer, reader, sync,
          last, hist

vars == <<now, pc, returned, fdReady, fdReadable, timer, writer, reader, sync,
          last, hist>>

\* ------------------------------------------------------------------ bounds
MaxTime == 3
MaxTimeout == 2

Timeouts == 0..MaxTimeout

\* +infinity of the Timestamp (double) domain: larger than every finite
\* timestamp the bounded clock can produce
Inf == 2 * MaxTime + MaxTimeout + 1

Plus(a, b) == IF a >= Inf \/ b >= Inf THEN Inf ELSE a + b
Minus(a, b) == IF a >= Inf THEN Inf ELSE a - b

\* Timestamp _expire is declared without an initializer and the constructor
\* does not assign it: after construction it holds an indeterminate value
\* (a past value, a future value, +infinity)
IndeterminateExpire == {0, MaxTime, Inf}

\* ------------------------------------------------- multiplexer: ev_timer
ev_timer_set(r, timeout) == [r EXCEPT !.at = timeout]

ev_timer_start(r) ==
    IF r.reg
    THEN [r EXCEPT !.calls = Append(@, "ev_timer_start")]
    ELSE [r EXCEPT !.reg = TRUE, !.at = Plus(now, r.at),
                   !.calls = Append(@, "ev_timer_start")]

ev_timer_stop(r) ==
    IF r.reg
    THEN [r EXCEPT !.pend = FALSE, !.reg = FALSE, !.at = Minus(r.at, now),
                   !.calls = Append(@, "ev_timer_stop")]
    ELSE [r EXCEPT !.pend = FALSE, !.calls = Append(@, "ev_timer_stop")]

\* a non-repeating timer whose deadline has passed at time t is stopped by
\* the multiplexer itself and its event is queued
timers_reify(r, t) ==
    IF r.reg /\ r.at <= t
    THEN [r EXCEPT !.reg = FALSE, !.at = Minus(r.at, t), !.pend = TRUE]
    ELSE r

\* ---------------------------------------------------- multiplexer: ev_io
ev_io_start(r) ==
    [r EXCEPT !.reg = TRUE, !.calls = Append(@, "ev_io_start")]

ev_io_stop(r) ==
    [r EXCEPT !.pend = FALSE, !.reg = FALSE, !.calls = Append(@, "ev_io_stop")]

fd_reify(r, ready) ==
    IF r.reg /\ ready THEN [r EXCEPT !.pend = TRUE] ELSE r

\* ev_io_init(watcher, cb, fd, events): the callback and the event mask of the
\* watcher (the model has one fd)
ev_io_init(r, cb, events) == [r EXCEPT !.cb = cb, !.events = events]

\* a registered ev_io whose mask asks for an event the fd shows is queued
fd_event(r, readable, writable) ==
    IF /\ r.reg
       /\ \/ r.events = "EV_READ" /\ readable
          \/ r.events = "EV_WRITE" /\ writable
    THEN [r EXCEPT !.pend = TRUE]
    ELSE r

\* ------------------------------------------------- multiplexer: ev_async
ev_async_start(r) ==
    [r EXCEPT !.reg = TRUE, !.calls = Append(@, "ev_async_start")]

ev_async_stop(r) ==
    [r EXCEPT !.pend = FALSE, !.reg = FALSE, !.calls = Append(@, "ev_async_stop")]

ev_async_send(r) == [r EXCEPT !.sent = TRUE]

async_reify(r) ==
    IF r.reg /\ r.sent THEN [r EXCEPT !.sent = FALSE, !.pend = TRUE] ELSE r

\* ------------------------------------------------------------------ Timer
Timer_initialize(r, timeout) == ev_timer_set(r, timeout)

\* start() without the "already running" guard
Timer_start_unguarded(r) ==
    [ev_timer_start(r) EXCEPT !.active = TRUE, !.ret = TRUE]

Timer_start(r) ==
    IF r.active
    THEN [r EXCEPT !.ret = FALSE]
    ELSE [ev_timer_start(r) EXCEPT !.active = TRUE, !.ret = TRUE]

\* cancel() that clears the flag but leaves the multiplexer alone
Timer_cancel_flag_only(r) ==
    IF ~r.active
    THEN [r EXCEPT !.ret = FALSE]
    ELSE [r EXCEPT !.active = FALSE, !.ret = TRUE]

Timer_cancel(r) ==
    IF ~r.active
    THEN [r EXCEPT !.ret = FALSE]
    ELSE [ev_timer_stop(r) EXCEPT !.active = FALSE, !.ret = TRUE]

\* set() with the comparison the comment describes (new timeout after the
\* current one)
Timer_set_later(r, timeout) ==
    IF r.active /\ Plus(now, timeout) > r.expire
    THEN [r EXCEPT !.expire = Plus(now, timeout), !.ret = TRUE]
    ELSE Timer_start([ev_timer_set(Timer_cancel(r), timeout)
                         EXCEPT !.expire = Plus(now, timeout)])

\* set() that forgets to cancel before it re-arms
Timer_set_no_cancel(r, timeout) ==
    IF r.active /\ Plus(now, timeout) < r.expire
    THEN [r EXCEPT !.expire = Plus(now, timeout), !.ret = TRUE]
    ELSE Timer_start([ev_timer_set(r, timeout)
                         EXCEPT !.expire = Plus(now, timeout)])

Timer_set(r, timeout) ==
    IF r.active /\ Plus(now, timeout) < r.expire
    THEN [r EXCEPT !.expire = Plus(now, timeout), !.ret = TRUE]
    ELSE Timer_start([ev_timer_set(Timer_cancel(r), timeout)
                         EXCEPT !.expire = Plus(now, timeout)])

\* mutation: invoke() calls the callback without clearing the active flag
Timer_invoke_keeps_active(r) ==
    IF r.expire <= now
    THEN [r EXCEPT !.inCb = TRUE]
    ELSE Timer_set(r, Minus(r.expire, now))

\* mutation: invoke() fires only when the expire time is exactly now
Timer_invoke_exact(r) ==
    IF r.expire = now
    THEN [r EXCEPT !.active = FALSE, !.inCb = TRUE]
    ELSE Timer_set(r, Minus(r.expire, now))

\* invoke() that fires without looking at the expire time
Timer_invoke_unconditional(r) == [r EXCEPT !.active = FALSE, !.inCb = TRUE]

\* inCb: the user callback (_callback(this)) has been entered
Timer_invoke(r) ==
    IF r.expire <= now
    THEN [r EXCEPT !.active = FALSE, !.inCb = TRUE]
    ELSE Timer_set(r, Minus(r.expire, now))

Timer_ctor(timeout, garbage) ==
    Timer_start(Timer_initialize(
        [alive |-> TRUE, active |-> FALSE, expire |-> garbage, at |-> 0,
         reg |-> FALSE, pend |-> FALSE, inCb |-> FALSE,
         calls |-> <<>>, ret |-> FALSE], timeout))

\* a destructor that does not cancel
Timer_dtor_no_cancel(r) == [r EXCEPT !.alive = FALSE, !.ret = FALSE]

Timer_dtor(r) == [Timer_cancel(r) EXCEPT !.alive = FALSE]

\* ----------------------------------------------------------- WriteWatcher
\* cancel() without the "must be active" guard
WriteWatcher_cancel_unguarded(r) ==
    [ev_io_stop(r) EXCEPT !.active = FALSE, !.ret = TRUE]

WriteWatcher_cancel(r) ==
    IF ~r.active
    THEN [r EXCEPT !.ret = FALSE]
    ELSE [ev_io_stop(r) EXCEPT !.active = FALSE, !.ret = TRUE]

WriteWatcher_resume(r) ==
    IF r.active
    THEN [r EXCEPT !.ret = FALSE]
    ELSE [ev_io_start(r) EXCEPT !.active = TRUE, !.ret = TRUE]

\* invoke() of a one-shot watcher: clears the flag before the callback
WriteWatcher_invoke_one_shot(r) == [r EXCEPT !.active = FALSE, !.inCb = TRUE]

WriteWatcher_invoke(r) == [r EXCEPT !.inCb = TRUE]

WriteWatcher_ctor ==
    WriteWatcher_resume(
        [life |-> "alive", active |-> FALSE, reg |-> FALSE, pend |-> FALSE,
         inCb |-> FALSE, calls |-> <<>>, ret |-> FALSE])

WriteWatcher_dtor(r) == [WriteWatcher_cancel(r) EXCEPT !.life = "dead"]

\* ----------------------------------------------------------------- Reader
\* mutation: initialize() that asks for write readiness
Reader_initialize_write(r) == ev_io_init(r, "onActive", "EV_WRITE")

Reader_initialize(r) == ev_io_init(r, "onActive", "EV_READ")

\* the object onActive calls invoke() on: the one stored in watcher->data
onActive(watcher) == watcher.data

Reader_cancel(r) ==
    IF ~r.active
    THEN [r EXCEPT !.ret = FALSE]
    ELSE [ev_io_stop(r) EXCEPT !.active = FALSE, !.ret = TRUE]

Reader_resume(r) ==
    IF r.active
    THEN [r EXCEPT !.ret = FALSE]
    ELSE [ev_io_start(r) EXCEPT !.active = TRUE, !.ret = TRUE]

Reader_invoke(r) == [r EXCEPT !.inCb = TRUE]

\* _watcher.data = this; initialize(fd); resume()
Reader_ctor ==
    Reader_resume(Reader_initialize(
        [life |-> "alive", active |-> FALSE, reg |-> FALSE, pend |-> FALSE,
         inCb |-> FALSE, cb |-> "none", events |-> "none", data |-> "Reader",
         calls |-> <<>>, ret |-> FALSE]))

\* ----------------------------------------------------------- Synchronizer
\* mutation: invoke() returns without calling the callback
Synchronizer_invoke_dropped(r) == r

Synchronizer_invoke(r) == [r EXCEPT !.inCb = TRUE]

\* mutation: a constructor that does not start the watcher
Synchronizer_ctor_unregistered ==
    [life |-> "alive", reg |-> FALSE, sent |-> FALSE, pend |-> FALSE,
     inCb |-> FALSE, calls |-> <<>>, ret |-> FALSE]

Synchronizer_ctor ==
    ev_async_start(
        [life |-> "alive", reg |-> FALSE, sent |-> FALSE, pend |-> FALSE,
         inCb |-> FALSE, calls |-> <<>>, ret |-> FALSE])

Synchronizer_dtor(r) == [ev_async_stop(r) EXCEPT !.life = "dead"]

\* mutation: synchronize() runs the callback itself, on the calling thread
Synchronizer_synchronize_inline(r) ==
    [ev_async_send(r) EXCEPT !.ret = TRUE, !.inCb = TRUE]

Synchronizer_synchronize(r) == [ev_async_send(r) EXCEPT !.ret = TRUE]

\* a watcher that has not been constructed (yet)
NoWriter ==
    [life |-> "none", active |-> FALSE, reg |-> FALSE, pend |-> FALSE,
     inCb |-> FALSE]

NoReader ==
    [life |-> "none", active |-> FALSE, reg |-> FALSE, pend |-> FALSE,
     inCb |-> FALSE, cb |-> "none", events |-> "none", data |-> "none"]

NoSynchronizer ==
    [life |-> "none", reg |-> FALSE, sent |-> FALSE, pend |-> FALSE,
     inCb |-> FALSE]

\* a method call starts on the object's fields with no request made yet
TimerCall(r) ==
    [alive |-> r.alive, active |-> r.active, expire |-> r.expire, at |-> r.at,
     reg |-> r.reg, pend |-> r.pend, inCb |-> r.inCb,
     calls |-> <<>>, ret |-> FALSE]

WriterCall(r) ==
    [life |-> r.life, active |-> r.active, reg |-> r.reg, pend |-> r.pend,
     inCb |-> r.inCb, calls |-> <<>>, ret |-> FALSE]

ReaderCall(r) ==
    [life |-> r.life, active |-> r.active, reg |-> r.reg, pend |-> r.pend,
     inCb |-> r.inCb, cb |-> r.cb, events |-> r.events, data |-> r.data,
     calls |-> <<>>, ret |-> FALSE]

SyncCall(r) ==
    [life |-> r.life, reg |-> r.reg, sent |-> r.sent, pend |-> r.pend,
     inCb |-> r.inCb, calls |-> <<>>, ret |-> FALSE]

\* the object's fields when the call is over
TimerFields(x) ==
    [alive |-> x.alive, active |-> x.active, expire |-> x.expire, at |-> x.at,
     reg |-> x.reg, pend |-> x.pend, inCb |-> x.inCb]

WriterFields(x) ==
    [life |-> x.life, active |-> x.active, reg |-> x.reg, pend |-> x.pend,
     inCb |-> x.inCb]

ReaderFields(x) ==
    [life |-> x.life, active |-> x.active, reg |-> x.reg, pend |-> x.pend,
     inCb |-> x.inCb, cb |-> x.cb, events |-> x.events, data |-> x.data]

SyncFields(x) ==
    [life |-> x.life, reg |-> x.reg, sent |-> x.sent, pend |-> x.pend,
     inCb |-> x.inCb]

\* what the caller observes of the call
Obs(name, x) == [op |-> name, ret |-> x.ret, calls |-> x.calls]

\* ------------------------------------------------------------------- Loop
B2N(b) == IF b THEN 1 ELSE 0

\* number of watchers registered with the multiplexer
activecnt ==
    B2N(timer.reg) + B2N(writer.reg) + B2N(reader.reg) + B2N(sync.reg)

NoPending == ~timer.pend /\ ~writer.pend /\ ~reader.pend /\ ~sync.pend

\* the loop thread is in user code: outside run() or inside a callback
InUserCode == pc \in {"idle", "cb"}

Init ==
    /\ now = 0
    /\ pc = "idle"
    /\ returned = FALSE
    /\ fdReady \in BOOLEAN
    /\ fdReadable = FALSE
    /\ \E t \in Timeouts, g \in IndeterminateExpire :
         /\ timer = TimerFields(Timer_ctor(t, g))
         /\ last = Obs("Timer.ctor", Timer_ctor(t, g))
    /\ writer = NoWriter
    /\ reader = NoReader
    /\ sync = NoSynchronizer
    /\ hist = [tFires |-> 0, tCancelled |-> FALSE, tSet |-> "no",
               tAssigned |-> FALSE, wCancelled |-> FALSE,
               sCalled |-> FALSE, sCredit |-> 0]

\* hist.sCredit counts synchronize() calls not yet matched by a callback
\* invocation; only the first call since the loop last collected its events is
\* counted (the others are the coalesced ones), and the count stops here
MaxCredit == 2

\* no method call has been made since control went back to the loop
NoCall == [op |-> "none", ret |-> FALSE, calls |-> <<>>]

Sat(n) == IF n >= 2 THEN 2 ELSE n + 1

\* ----------------------------------------------------- the loop: run()
Run ==
    /\ pc = "idle"
    /\ pc' = "poll"
    /\ returned' = FALSE
    /\ last' = NoCall
    /\ UNCHANGED <<now, fdReady, timer, writer, sync, hist, reader, fdReadable>>

\* run() returns when no watcher is registered any more
RunReturn ==
    /\ pc = "poll"
    /\ activecnt = 0
    /\ pc' = "idle"
    /\ returned' = TRUE
    /\ UNCHANGED <<now, fdReady, timer, writer, sync, last, hist, reader,
                   fdReadable>>

\* block until at least one registered interest is ready, refresh the cached
\* clock and queue the ready watchers
Poll ==
    /\ pc = "poll"
    /\ activecnt > 0
    /\ \E n \in now..MaxTime :
         /\ now' = n
         /\ timer' = timers_reify(timer, n)
         /\ writer' = fd_reify(writer, fdReady)
         /\ reader' = fd_event(reader, fdReadable, fdReady)
         /\ sync' = async_reify(sync)
         /\ (timer'.pend \/ writer'.pend \/ reader'.pend \/ sync'.pend)
         /\ hist' = [hist EXCEPT
                !.tSet = IF @ = "set" /\ n >= timer.expire THEN "due" ELSE @,
                !.sCalled = FALSE]
    /\ pc' = "dispatch"
    /\ UNCHANGED <<returned, fdReady, last, fdReadable>>

DispatchTimer ==
    /\ pc = "dispatch"
    /\ timer.pend
    /\ LET x == Timer_invoke(TimerCall([timer EXCEPT !.pend = FALSE]))
       IN  /\ timer' = TimerFields(x)
           /\ last' = Obs("Timer.invoke", x)
           /\ pc' = IF x.inCb THEN "cb" ELSE "dispatch"
           /\ hist' = IF x.inCb
                      THEN [hist EXCEPT !.tFires = Sat(@), !.tSet = "no"]
                      ELSE hist
    /\ UNCHANGED <<now, returned, fdReady, writer, sync, reader, fdReadable>>

DispatchWriter ==
    /\ pc = "dispatch"
    /\ writer.pend
    /\ LET x == WriteWatcher_invoke(WriterCall([writer EXCEPT !.pend = FALSE]))
       IN  /\ writer' = WriterFields(x)
           /\ last' = Obs("Writer.invoke", x)
           /\ pc' = IF x.inCb THEN "cb" ELSE "dispatch"
    /\ UNCHANGED <<now, returned, fdReady, timer, sync, hist, reader,
                   fdReadable>>

DispatchSynchronizer ==
    /\ pc = "dispatch"
    /\ sync.pend
    /\ LET x == Synchronizer_invoke(SyncCall([sync EXCEPT !.pend = FALSE]))
       IN  /\ sync' = SyncFields(x)
           /\ last' = Obs("Synchronizer.invoke", x)
           /\ pc' = IF x.inCb THEN "cb" ELSE "dispatch"
           /\ hist' = IF x.inCb
                      THEN [hist EXCEPT !.sCredit = IF @ > 0 THEN @ - 1 ELSE -1]
                      ELSE hist
    /\ UNCHANGED <<now, returned, fdReady, timer, writer, reader, fdReadable>>

\* the multiplexer calls the callback of the Reader's ev_io (onActive), which
\* calls invoke() on the object stored in its data field
DispatchReader ==
    /\ pc = "dispatch"
    /\ reader.pend
    /\ LET w == [reader EXCEPT !.pend = FALSE]
           object == onActive(w)
       IN  IF object = "Reader"
           THEN LET x == Reader_invoke(ReaderCall(w))
                IN  /\ reader' = ReaderFields(x)
                    /\ writer' = writer
                    /\ last' = Obs("Reader.invoke", x)
                    /\ pc' = IF x.inCb THEN "cb" ELSE "dispatch"
           ELSE LET x == WriteWatcher_invoke(WriterCall(writer))
                IN  /\ reader' = w
                    /\ writer' = WriterFields(x)
                    /\ last' = Obs("Writer.invoke", x)
                    /\ pc' = IF x.inCb THEN "cb" ELSE "dispatch"
    /\ UNCHANGED <<now, returned, fdReady, fdReadable, timer, sync, hist>>

\* the user callback returns to invoke(), which returns to the loop
CallbackReturn ==
    /\ pc = "cb"
    /\ pc' = "dispatch"
    /\ timer' = [timer EXCEPT !.inCb = FALSE]
    /\ writer' = [writer EXCEPT !.inCb = FALSE]
    /\ reader' = [reader EXCEPT !.inCb = FALSE]
    /\ sync' = [sync EXCEPT !.inCb = FALSE]
    /\ last' = NoCall
    /\ UNCHANGED <<now, returned, fdReady, hist, fdReadable>>

EndCycle ==
    /\ pc = "dispatch"
    /\ NoPending
    /\ pc' = "poll"
    /\ UNCHANGED <<now, returned, fdReady, timer, writer, sync, last, hist,
                   reader, fdReadable>>

\* ------------------------------------------- user code on the loop thread
TimerStart ==
    /\ InUserCode
    /\ timer.alive
    /\ LET x == Timer_start(TimerCall(timer))
       IN  /\ timer' = TimerFields(x)
           /\ last' = Obs("Timer.start", x)
           /\ hist' = [hist EXCEPT !.tFires = 0,
                                   !.tCancelled = IF x.ret THEN FALSE ELSE @]
    /\ UNCHANGED <<now, pc, returned, fdReady, writer, sync, reader,
                   fdReadable>>

TimerCancel ==
    /\ InUserCode
    /\ timer.alive
    /\ LET x == Timer_cancel(TimerCall(timer))
       IN  /\ timer' = TimerFields(x)
           /\ last' = Obs("Timer.cancel", x)
           /\ hist' = [hist EXCEPT !.tFires = 0,
                                   !.tCancelled = IF x.ret THEN TRUE ELSE @,
                                   !.tSet = "no"]
    /\ UNCHANGED <<now, pc, returned, fdReady, writer, sync, reader,
                   fdReadable>>

TimerSet(timeout) ==
    /\ InUserCode
    /\ timer.alive
    /\ LET x == Timer_set(TimerCall(timer), timeout)
       IN  /\ timer' = TimerFields(x)
           /\ last' = Obs("Timer.set", x)
           /\ hist' = [hist EXCEPT !.tFires = 0, !.tCancelled = FALSE,
                                   !.tSet = "set", !.tAssigned = TRUE]
    /\ UNCHANGED <<now, pc, returned, fdReady, writer, sync, reader,
                   fdReadable>>

TimerDestroy ==
    /\ InUserCode
    /\ timer.alive
    /\ ~timer.inCb
    /\ LET x == Timer_dtor(TimerCall(timer))
       IN  /\ timer' = TimerFields(x)
           /\ last' = Obs("Timer.dtor", x)
           /\ hist' = [hist EXCEPT !.tFires = 0, !.tSet = "no"]
    /\ UNCHANGED <<now, pc, returned, fdReady, writer, sync, reader,
                   fdReadable>>

WriterConstruct ==
    /\ InUserCode
    /\ writer.life = "none"
    /\ writer' = WriterFields(WriteWatcher_ctor)
    /\ last' = Obs("Writer.ctor", WriteWatcher_ctor)
    /\ UNCHANGED <<now, pc, returned, fdReady, timer, sync, hist, reader,
                   fdReadable>>

WriterCancel ==
    /\ InUserCode
    /\ writer.life = "alive"
    /\ LET x == WriteWatcher_cancel(WriterCall(writer))
       IN  /\ writer' = WriterFields(x)
           /\ last' = Obs("Writer.cancel", x)
           /\ hist' = [hist EXCEPT !.wCancelled = IF x.ret THEN TRUE ELSE @]
    /\ UNCHANGED <<now, pc, returned, fdReady, timer, sync, reader, fdReadable>>

WriterResume ==
    /\ InUserCode
    /\ writer.life = "alive"
    /\ LET x == WriteWatcher_resume(WriterCall(writer))
       IN  /\ writer' = WriterFields(x)
           /\ last' = Obs("Writer.resume", x)
           /\ hist' = [hist EXCEPT !.wCancelled = IF x.ret THEN FALSE ELSE @]
    /\ UNCHANGED <<now, pc, returned, fdReady, timer, sync, reader, fdReadable>>

WriterDestroy ==
    /\ InUserCode
    /\ writer.life = "alive"
    /\ ~writer.inCb
    /\ LET x == WriteWatcher_dtor(WriterCall(writer))
       IN  /\ writer' = WriterFields(x)
           /\ last' = Obs("Writer.dtor", x)
    /\ UNCHANGED <<now, pc, returned, fdReady, timer, sync, hist, reader,
                   fdReadable>>

SynchronizerConstruct ==
    /\ InUserCode
    /\ sync.life = "none"
    /\ sync' = SyncFields(Synchronizer_ctor)
    /\ last' = Obs("Synchronizer.ctor", Synchronizer_ctor)
    /\ UNCHANGED <<now, pc, returned, fdReady, timer, writer, hist, reader,
                   fdReadable>>

SynchronizerDestroy ==
    /\ InUserCode
    /\ sync.life = "alive"
    /\ ~sync.inCb
    /\ LET x == Synchronizer_dtor(SyncCall(sync))
       IN  /\ sync' = SyncFields(x)
           /\ last' = Obs("Synchronizer.dtor", x)
           /\ hist' = [hist EXCEPT !.sCalled = FALSE, !.sCredit = 0]
    /\ UNCHANGED <<now, pc, returned, fdReady, timer, writer, reader,
                   fdReadable>>

\* ------------------------------------------------------------ environment
\* synchronize() may be called from any thread at any time
Synchronize ==
    /\ sync.life = "alive"
    /\ sync' = SyncFields(Synchronizer_synchronize(SyncCall(sync)))
    /\ hist' = [hist EXCEPT !.sCalled = TRUE,
                            !.sCredit = IF hist.sCalled \/ @ >= MaxCredit
                                        THEN @ ELSE @ + 1]
    /\ UNCHANGED <<now, pc, returned, fdReady, timer, writer, last, reader,
                   fdReadable>>

\* the file descriptor becomes ready / stops being ready
FdChange ==
    /\ fdReady' = ~fdReady
    /\ UNCHANGED <<now, pc, returned, timer, writer, sync, last, hist,
                   reader, fdReadable>>

\* data arrives on the fd or is consumed
FdReadableChange ==
    /\ fdReadable' = ~fdReadable
    /\ UNCHANGED <<now, pc, returned, fdReady, timer, writer, reader, sync,
                   last, hist>>

ReaderConstruct ==
    /\ InUserCode
    /\ reader.life = "none"
    /\ reader' = ReaderFields(Reader_ctor)
    /\ last' = Obs("Reader.ctor", Reader_ctor)
    /\ UNCHANGED <<now, pc, returned, fdReady, fdReadable, timer, writer, sync,
                   hist>>

ReaderCancel ==
    /\ InUserCode
    /\ reader.life = "alive"
    /\ LET x == Reader_cancel(ReaderCall(reader))
       IN  /\ reader' = ReaderFields(x)
           /\ last' = Obs("Reader.cancel", x)
    /\ UNCHANGED <<now, pc, returned, fdReady, fdReadable, timer, writer, sync,
                   hist>>

ReaderResume ==
    /\ InUserCode
    /\ reader.life = "alive"
    /\ LET x == Reader_resume(ReaderCall(reader))
       IN  /\ reader' = ReaderFields(x)
           /\ last' = Obs("Reader.resume", x)
    /\ UNCHANGED <<now, pc, returned, fdReady, fdReadable, timer, writer, sync,
                   hist>>

LoopStep ==
    \/ Run
    \/ RunReturn
    \/ Poll
    \/ DispatchTimer
    \/ CallbackReturn
    \/ EndCycle

Next ==
    \/ LoopStep
    \/ DispatchWriter
    \/ DispatchSynchronizer
    \/ TimerStart
    \/ TimerCancel
    \/ \E timeout \in Timeouts : TimerSet(timeout)
    \/ TimerDestroy
    \/ WriterConstruct
    \/ WriterCancel
    \/ WriterResume
    \/ WriterDestroy
    \/ SynchronizerConstruct
    \/ SynchronizerDestroy
    \/ Synchronize
    \/ FdChange

Spec == Init /\ [][Next]_vars

\* A loop whose only watcher is the Timer of Init, whose callback calls no
\* method: only the loop and the environment take steps.  run() is called,
\* the multiplexer reports what is ready and callbacks return.
NextTimerOnly ==
    \/ LoopStep
    \/ FdChange

FairTimerOnly == Init /\ [][NextTimerOnly]_vars /\ WF_vars(LoopStep)

\* A loop with the Timer of Init and a Synchronizer: the loop thread runs the
\* loop and returns from callbacks, other threads call synchronize() at any
\* moment, the owner constructs and destroys the Synchronizer.
NextSynchronizer ==
    \/ LoopStep
    \/ DispatchSynchronizer
    \/ SynchronizerConstruct
    \/ SynchronizerDestroy
    \/ Synchronize
    \/ FdChange

\* the loop thread keeps running: it collects events, invokes what is queued
\* and callbacks return
FairSynchronizer ==
    Init /\ [][NextSynchronizer]_vars
         /\ WF_vars(LoopStep) /\ WF_vars(DispatchSynchronizer)

\* A loop with the Timer of Init, a Reader and a Writer on the same fd: the
\* fd becomes readable and writable independently.
NextReader ==
    \/ LoopStep
    \/ DispatchReader
    \/ DispatchWriter
    \/ ReaderConstruct
    \/ ReaderCancel
    \/ ReaderResume
    \/ WriterConstruct
    \/ WriterCancel
    \/ WriterResume
    \/ FdChange
    \/ FdReadableChange

SpecReader == Init /\ [][NextReader]_vars

\* a callback of the watcher is entered by this step
ReaderCallbackEntered == reader'.inCb /\ ~reader.inCb
TimerCallbackEntered == timer'.inCb /\ ~timer.inCb
WriterCallbackEntered == writer'.inCb /\ ~writer.inCb
SynchronizerCallbackEntered == sync'.inCb /\ ~sync.inCb

\* a dispatch cycle is over: every queued watcher has been invoked and has
\* returned
CycleComplete == pc = "dispatch" /\ NoPending

\* the active-watcher count as the watchers see it: the armed Timer, the
\* armed Writer and the Synchronizer while it exists
ActiveWatchers ==
    B2N(timer.active) + B2N(writer.active) + B2N(reader.active)
       + B2N(sync.life = "alive")

\* the branch condition of Timer::set, as the claims state it
Shortens(timeout) == timer.active /\ Plus(now, timeout) < timer.expire

\* ---------------------------------------------------------------- claims

C2_SetFiresAtNewTime == ~(CycleComplete /\ hist.tSet = "due")

C5_InvokeFiresOnlyWhenExpired ==
    [][/\ DispatchTimer =>
            IF timer.expire <= now
            THEN timer'.inCb /\ ~timer'.active
            ELSE /\ ~timer'.inCb
                 /\ timer'.active /\ timer'.reg
                 /\ timer'.expire = timer.expire
                 /\ timer'.at = timer.expire
       /\ TimerCallbackEntered => timer.expire <= now]_vars

C5_Witness ==
    /\ last.op = "Timer.invoke"
    /\ pc = "dispatch"
    /\ ~timer.inCb /\ timer.active /\ timer.reg
    /\ timer.expire > now /\ timer.expire < Inf

\* C6: once cancel() of a Timer or of a Writer has returned true, its
\* callback is not entered again unless start/resume/set re-arms it, even
\* when its event was already queued in the running dispatch cycle.
C6_NoCallbackAfterCancel ==
    [][/\ TimerCallbackEntered => ~hist.tCancelled
       /\ WriterCallbackEntered => ~hist.wCancelled]_vars

\* inside the Writer's callback, cancel() has returned true for a Timer
\* whose deadline had elapsed before this cycle's poll
C6_Witness ==
    /\ pc = "cb" /\ writer.inCb
    /\ last.op = "Timer.cancel" /\ last.ret
    /\ hist.tCancelled
    /\ timer.at < 0

\* C7: start() on an armed Timer returns false and changes nothing; on an
\* unarmed Timer it registers the deadline, sets active and returns true.
\* cancel() on an unarmed Timer returns false and changes nothing; on an
\* armed Timer it deregisters, clears active and returns true.  Neither
\* changes expire.
C7_StartCancelReturn ==
    [][/\ TimerStart =>
            IF timer.active
            THEN last'.ret = FALSE /\ last'.calls = <<>> /\ timer' = timer
            ELSE /\ last'.ret = TRUE
                 /\ last'.calls = <<"ev_timer_start">>
                 /\ timer'.active /\ timer'.reg
                 /\ timer'.expire = timer.expire
       /\ TimerCancel =>
            IF ~timer.active
            THEN last'.ret = FALSE /\ last'.calls = <<>> /\ timer' = timer
            ELSE /\ last'.ret = TRUE
                 /\ last'.calls = <<"ev_timer_stop">>
                 /\ ~timer'.active /\ ~timer'.reg /\ ~timer'.pend
                 /\ timer'.expire = timer.expire]_vars

C7_Witness ==
    /\ last.op = "Timer.start" /\ last.ret = FALSE /\ last.calls = <<>>
    /\ timer.active /\ timer.reg

\* C8: resume() and cancel() of a Writer are idempotent: in every reachable
\* state where user code can call them, the second of two calls in a row
\* returns false, makes no request to the multiplexer and leaves the watcher
\* as the first call left it.
C8_Idempotent ==
    (InUserCode /\ writer.life = "alive") =>
        LET c1 == WriteWatcher_cancel(WriterCall(writer))
            c2 == WriteWatcher_cancel(WriterCall(WriterFields(c1)))
            r1 == WriteWatcher_resume(WriterCall(writer))
            r2 == WriteWatcher_resume(WriterCall(WriterFields(r1)))
        IN  /\ c2.ret = FALSE /\ c2.calls = <<>>
            /\ WriterFields(c2) = WriterFields(c1)
            /\ r2.ret = FALSE /\ r2.calls = <<>>
            /\ WriterFields(r2) = WriterFields(r1)

\* the second of two cancel() calls in a row has returned false
C8_Witness ==
    /\ last.op = "Writer.cancel" /\ last.ret = FALSE /\ last.calls = <<>>
    /\ writer.life = "alive" /\ ~writer.active /\ ~writer.reg
    /\ hist.wCancelled

\* C9: a Writer is level-triggered.  Every poll made while it is active and
\* its fd is ready queues it, and nothing else queues it; a queued report
\* ends in one callback invocation unless the watcher is cancelled first;
\* invoke() always enters the callback and leaves the active flag alone;
\* after a cancel() the callback is not entered again though the fd stays
\* ready.
C9_LevelTriggered ==
    [][/\ (pc = "poll" /\ pc' = "dispatch" /\ writer.active /\ fdReady)
            => writer'.pend
       /\ (writer'.pend /\ ~writer.pend)
            => (pc = "poll" /\ writer.active /\ fdReady)
       /\ (writer.pend /\ ~writer'.pend)
            => (writer'.inCb \/ ~writer'.active)
       /\ DispatchWriter
            => (writer'.inCb /\ writer.active /\ writer'.active)
       /\ WriterCallbackEntered
            => (writer.pend /\ writer.active /\ ~hist.wCancelled)]_vars

\* the callback of the Writer has cancelled it while the fd is ready
C9_Witness ==
    /\ pc = "cb" /\ writer.inCb
    /\ last.op = "Writer.cancel" /\ last.ret
    /\ ~writer.active /\ fdReady

\* C10: the destructor of a Timer, Writer or Synchronizer leaves no
\* registration and no queued event behind, so no callback of a destroyed
\* watcher is entered; destroying a Timer or Writer that is not active makes
\* no request to the multiplexer.
C10_DestroyDeregisters ==
    /\ [](/\ ~timer.alive => (~timer.reg /\ ~timer.pend)
          /\ writer.life = "dead" => (~writer.reg /\ ~writer.pend)
          /\ sync.life = "dead" => (~sync.reg /\ ~sync.pend))
    /\ [][/\ TimerCallbackEntered => timer.alive
          /\ WriterCallbackEntered => writer.life = "alive"
          /\ SynchronizerCallbackEntered => sync.life = "alive"
          /\ (TimerDestroy /\ ~timer.active) => last'.calls = <<>>
          /\ (WriterDestroy /\ ~writer.active) => last'.calls = <<>>]_vars

\* the Timer was destroyed while armed, after its deadline had elapsed
C10_Witness ==
    /\ ~timer.alive
    /\ last.op = "Timer.dtor" /\ last.calls = <<"ev_timer_stop">>
    /\ timer.at < 0
    /\ pc = "cb"

\* C11: a synchronize() call made while the Synchronizer exists and the loop
\* is running is collected by the loop in a later wait (the wake is queued
\* and the call is no longer outstanding), and a queued wake leads to the
\* callback being invoked, unless the Synchronizer is destroyed first; this
\* holds for a call made while the callback of an earlier wake is running.
C11_EventuallyDelivered ==
    /\ (hist.sCalled /\ sync.life = "alive" /\ pc # "idle")
           ~> (sync.life # "alive" \/ (sync.pend /\ ~hist.sCalled))
    /\ sync.pend ~> (sync.life # "alive" \/ sync.inCb)

\* synchronize() has been called while the callback of an earlier wake runs
C11_Witness ==
    /\ sync.inCb
    /\ hist.sCalled
    /\ sync.sent

\* C12: the Synchronizer's callback runs only inside a dispatch cycle of the
\* loop; synchronize() only marks the wake and returns true, it does not run
\* the callback; and the callback has never been invoked more often than
\* synchronize() has been called (hist.sCredit, the calls not yet matched by
\* an invocation, never drops below zero).
C12_CallbackOnLoopThread ==
    /\ sync.inCb => pc = "cb"
    /\ hist.sCredit >= 0
    /\ sync.life = "alive" =>
           LET x == Synchronizer_synchronize(SyncCall(sync))
           IN  /\ x.ret = TRUE
               /\ SyncFields(x) = [sync EXCEPT !.sent = TRUE]

\* the callback runs in a dispatch cycle and every call made so far is matched
C12_Witness ==
    /\ sync.inCb
    /\ pc = "cb"
    /\ last.op = "Synchronizer.invoke"
    /\ hist.sCredit = 0
    /\ ~sync.sent

\* C13: the active-watcher count goes up by one with every start()/resume()
\* that returns true and down by one with every cancel() that returns true
\* (and is left alone by those that return false); run() can return exactly
\* when the loop is between two dispatch cycles and that count is zero: at
\* once when nothing is active at the call, after the callback in which the
\* last active watcher was cancelled, and never while a watcher is active.
C13_LoopTermination ==
    /\ (ENABLED RunReturn) <=> (pc = "poll" /\ ActiveWatchers = 0)
    /\ (InUserCode /\ timer.alive) =>
           LET s == Timer_start(TimerCall(timer))
               c == Timer_cancel(TimerCall(timer))
           IN  /\ B2N(s.active) = B2N(timer.active) + B2N(s.ret)
               /\ B2N(c.active) = B2N(timer.active) - B2N(c.ret)
    /\ (InUserCode /\ writer.life = "alive") =>
           LET s == WriteWatcher_resume(WriterCall(writer))
               c == WriteWatcher_cancel(WriterCall(writer))
           IN  /\ B2N(s.active) = B2N(writer.active) + B2N(s.ret)
               /\ B2N(c.active) = B2N(writer.active) - B2N(c.ret)

\* run() has returned: the Timer has fired, the Writer has been cancelled and
\* no watcher is active
C13_Witness ==
    /\ returned
    /\ pc = "idle"
    /\ last = NoCall
    /\ hist.tFires = 1
    /\ hist.wCancelled
    /\ writer.life = "alive"
    /\ ActiveWatchers = 0

\* the multiplexer requests of one method call, made on a Timer whose
\* deadline is registered or not (reg), never ask to register a deadline
\* while one is in place
RECURSIVE OneRegistration(_, _)
OneRegistration(reg, calls) ==
    IF calls = <<>> THEN TRUE
    ELSE IF Head(calls) = "ev_timer_start"
         THEN ~reg /\ OneRegistration(TRUE, Tail(calls))
    ELSE IF Head(calls) = "ev_timer_stop"
         THEN OneRegistration(FALSE, Tail(calls))
    ELSE OneRegistration(reg, Tail(calls))

\* C14: a Timer has at most one physical deadline registered: in every
\* reachable state a deadline is registered only for an armed Timer, and no
\* method that can run in that state (start, cancel, set with any timeout,
\* the destructor, invoke when the Timer is queued) asks the multiplexer to
\* register a deadline while the previous registration is still in place.
C14_OneRegistration ==
    /\ timer.reg => timer.active
    /\ (InUserCode /\ timer.alive) =>
           /\ OneRegistration(timer.reg, Timer_start(TimerCall(timer)).calls)
           /\ OneRegistration(timer.reg, Timer_cancel(TimerCall(timer)).calls)
           /\ OneRegistration(timer.reg, Timer_dtor(TimerCall(timer)).calls)
           /\ \A timeout \in Timeouts :
                 OneRegistration(timer.reg,
                                 Timer_set(TimerCall(timer), timeout).calls)
    /\ (pc = "dispatch" /\ timer.pend) =>
           OneRegistration(timer.reg,
               Timer_invoke(TimerCall([timer EXCEPT !.pend = FALSE])).calls)

\* start() has registered the deadline of a Timer that was not armed
C14_Witness ==
    /\ last.op = "Timer.start"
    /\ last.calls = <<"ev_timer_start">>
    /\ timer.reg
    /\ hist.tAssigned
    /\ now > 0

\* the absolute time of the Timer's physical deadline: the multiplexer keeps
\* it absolute while the deadline is registered and relative to the time of
\* the report once it has elapsed
PhysicalDeadline == IF timer.reg THEN timer.at ELSE Plus(now, timer.at)

\* the last call on the armed Timer was a set() that moved expire before the
\* physical deadline and left the registration untouched
Shortened ==
    /\ timer.alive /\ timer.active
    /\ hist.tSet # "no"
    /\ timer.expire < PhysicalDeadline

C16_LengthenOnlyUpdatesExpire ==
    /\ (InUserCode /\ timer.alive /\ timer.active /\ hist.tSet # "no") =>
           \A timeout \in Timeouts :
              Plus(now, timeout) > timer.expire =>
                 LET x == Timer_set(TimerCall(timer), timeout)
                 IN  /\ x.calls = <<>>
                     /\ x.reg = timer.reg /\ x.at = timer.at
                     /\ x.expire = Plus(now, timeout)
    /\ (pc = "dispatch" /\ timer.pend /\ timer.expire > now) =>
           LET x == Timer_invoke(TimerCall([timer EXCEPT !.pend = FALSE]))
           IN  ~x.inCb /\ x.active /\ x.reg /\ x.at = timer.expire

\* C17: whenever no invoke() of the watcher is in progress, the active flag
\* of the Timer, and of the Writer, is true exactly when the watcher is
\* registered with the multiplexer.
C17_ActiveIffRegistered ==
    /\ (timer.alive /\ ~timer.inCb) => (timer.active <=> timer.reg)
    /\ (writer.life = "alive" /\ ~writer.inCb) =>
           (writer.active <=> writer.reg)

\* C17 (amended): whenever no invoke() of the watcher is in progress, the
\* active flag of the Writer is true exactly when it is registered, and the
\* active flag of the Timer is true exactly when its deadline is registered
\* or has elapsed and is queued for invoke(): a fired Timer, which the
\* multiplexer deregistered by itself, keeps the flag until invoke() runs.
C17_ActiveIffRegisteredOrQueued ==
    /\ (timer.alive /\ ~timer.inCb) =>
           /\ timer.active <=> (timer.reg \/ timer.pend)
           /\ ~(timer.reg /\ timer.pend)
    /\ (writer.life = "alive" /\ ~writer.inCb) =>
           (writer.active <=> writer.reg)

\* the Timer has fired physically and waits for invoke() while the callback
\* of the Synchronizer runs
C17_Witness ==
    /\ timer.alive
    /\ timer.active
    /\ ~timer.reg
    /\ timer.pend
    /\ sync.inCb

C19_SetReturnsTrue ==
    (InUserCode /\ timer.alive) =>
       \A timeout \in Timeouts :
          LET x == Timer_set(TimerCall(timer), timeout)
          IN  /\ x.ret = TRUE
              /\ x.active
              /\ x.expire = Plus(now, timeout)

\* after run() returned, set() was called on the Timer, which was not armed
\* (only a register request was made), and has armed it
C19_Witness ==
    /\ last.op = "Timer.set"
    /\ last.ret = TRUE
    /\ last.calls = <<"ev_timer_start">>
    /\ pc = "idle"
    /\ returned
    /\ timer.active /\ timer.reg

\* C20: on the fire path invoke() clears the active flag before it calls the
\* callback: inside the callback, as long as no method of the Timer has been
\* called, the Timer is not armed (cancel() would return false and start()
\* true), and it is still so when the callback returns; when the last call
\* made inside the callback was set() or start() on the Timer, the Timer is
\* active and registered when the callback returns, with an expire time that
\* will have passed when the registered deadline is reported, so that
\* invoke() fires again.
C20_ClearedBeforeCallback ==
    /\ (timer.inCb /\ hist.tFires >= 1) =>
           /\ ~timer.active /\ ~timer.reg
           /\ Timer_cancel(TimerCall(timer)).ret = FALSE
           /\ Timer_start(TimerCall(timer)).ret = TRUE
    /\ (timer.inCb /\ last.op \in {"Timer.set", "Timer.start"}) =>
           /\ timer.active /\ timer.reg
           /\ (timer.expire <= timer.at \/ timer.expire <= now)

\* the callback of the Timer has called set() and the Timer is armed again
C20_Witness ==
    /\ timer.inCb
    /\ pc = "cb"
    /\ last.op = "Timer.set"
    /\ last.calls = <<"ev_timer_start">>
    /\ timer.active /\ timer.reg

\* C21: a Synchronizer is registered with the multiplexer exactly from the end
\* of its constructor until its destructor: synchronize() and invoke() leave
\* the registration as it is; so while the Synchronizer exists the loop has at
\* least one registered watcher and run() cannot return, whether or not
\* synchronize() has been called.
C21_RegisteredWhileAlive ==
    /\ sync.reg <=> sync.life = "alive"
    /\ sync.life = "alive" =>
           /\ activecnt >= 1
           /\ ~ENABLED RunReturn
           /\ Synchronizer_synchronize(SyncCall(sync)).reg
           /\ Synchronizer_invoke(SyncCall(sync)).reg

\* the Timer has fired, no Timer or Writer is active and synchronize() has
\* not been called: the loop waits, kept from returning by the Synchronizer
C21_Witness ==
    /\ sync.life = "alive"
    /\ pc = "poll"
    /\ ~timer.active /\ ~writer.active
    /\ hist.tFires = 1
    /\ hist.sCredit = 0 /\ ~hist.sCalled /\ ~sync.sent
    /\ ~returned

\* C22: a Reader registers interest in read readiness only; the loop queues a
\* report for the Reader only when its registration is in place and the fd is
\* readable (never because the fd is merely writable); each queued report of
\* the Reader makes onActive call invoke() once on the Reader and changes no
\* other watcher; the Reader's callback is entered in no other way, and a
\* report of the Writer leaves the Reader alone.
C22_ReaderInvokedOnReadable ==
    /\ [](reader.life = "alive" =>
             /\ reader.events = "EV_READ"
             /\ reader.cb = "onActive"
             /\ onActive(reader) = "Reader")
    /\ [][/\ (pc = "poll" /\ pc' = "dispatch" /\ reader'.pend)
               => (reader.reg /\ fdReadable)
          /\ DispatchReader =>
                /\ reader'.inCb /\ ~reader.inCb /\ ~reader'.pend
                /\ last'.op = "Reader.invoke"
                /\ writer' = writer /\ timer' = timer /\ sync' = sync
          /\ ReaderCallbackEntered => (pc = "dispatch" /\ reader.pend)
          /\ DispatchWriter => reader' = reader]_vars

\* the Reader's callback runs for a report of its registration while the
\* Writer, registered for the same fd, which is not writable, is not invoked
C22_Witness ==
    /\ reader.inCb
    /\ last.op = "Reader.invoke"
    /\ writer.reg /\ ~writer.inCb /\ ~writer.pend
    /\ ~fdReady
    /\ fdReadable

====
